---- MODULE Spec2Model ----
(***************************************************************************)
(* The deca-layered task scaffold of src/src/scaffold.py: the stage        *)
(* catalog (ScaffoldStep), the per-task record (TaskRecord) with its       *)
(* current-step resolution, and the engine (ScaffoldEngine) that creates,  *)
(* advances and fails tasks and recomputes the witness hash.               *)
(*                                                                         *)
(* Conventions.  An Optional[...] value of the source is None (the empty   *)
(* tuple) or Some(v) (the one-element tuple).  A dict is the set of its    *)
(* <<key, value>> pairs.  A ScaffoldStep member is its integer value, and  *)
(* StepName gives its name.  uuid4 is idealised as never repeating: the    *)
(* engine neither orders nor inspects identifiers, so they are handed out  *)
(* as 1, 2, ...  ISO timestamps are readings of a wall clock that only     *)
(* moves forward.  SHA-256 is idealised as collision free: the digest of a *)
(* payload is the term [sha256 |-> payload], and json.dumps with sorted    *)
(* keys is the record of the fields it serialises.                         *)
(***************************************************************************)
EXTENDS Integers, Sequences, FiniteSets, TLC

\* ------------------------------------------------------------------- bound
MaxExtras == 1
MaxConcurrentSteps == 3

\* ---------------------------------------------------------- input domains
IdSpace == 1..(MaxExtras + 1)
Intents == {"x", "y"}
Errors == {"timeout", "denied"}

None == << >>
Some(v) == << v >>

\* The payloads offered to advance: no payload, the empty dict, a dict with
\* every well-known key, and a dict with none of them.
FullOutput ==
  { <<"organization", "BlackRoad-Security">>, <<"team", "red">>,
    <<"agent", "cipher">>, <<"repository", "audit">>, <<"branch", "main">> }
PlainOutput == { <<"status", "ok">> }
Outputs == { None, Some({}), Some(FullOutput), Some(PlainOutput) }

\* ------------------------------------------------------------ stage catalog
NumSteps == 10
ScaffoldStep == 1..NumSteps

StepName ==
  <<"INITIAL_REVIEWER", "TASK_TO_ORGANIZATION", "TASK_TO_TEAM",
    "TASK_TO_PROJECT", "TASK_TO_AGENT", "TASK_TO_REPOSITORY",
    "TASK_TO_DEVICE", "TASK_TO_DRIVE", "TASK_TO_CLOUDFLARE",
    "TASK_TO_WEBSITE_EDITOR">>

TASK_TO_ORGANIZATION == 2
TASK_TO_TEAM == 3
TASK_TO_AGENT == 5
TASK_TO_REPOSITORY == 6

COMPLETED == "completed"
FAILED == "failed"

VARIABLES tasks, clock, result, calls

vars == <<tasks, clock, result, calls>>

\* The callers that may have a call of the engine in progress at once.
Threads == {"a", "b"}

\* ------------------------------------------------------------- dict helpers
\* dict.get(key): the value stored under key, or None.
DictGet(d, key) ==
  IF \E p \in d : p[1] = key
    THEN Some((CHOOSE p \in d : p[1] = key)[2])
    ELSE None

\* Python truthiness of an Optional[Dict]: None and {} are both falsy.
Truthy(output) == output # None /\ output[1] # {}

\* `output or {}`
OrEmpty(output) == IF Truthy(output) THEN output[1] ELSE {}

\* The frame of a caller: where it is in advance or fail_step, with the locals
\* of that call (task_id, output or error, step, now).
Idle ==
  [ pc |-> "idle", task_id |-> 0, output |-> None, error |-> None,
    step |-> 0, now |-> 0 ]

\* --------------------------------------------------------------- TaskRecord
StepResult(step, status, now, output, error) ==
  [ step |-> step, status |-> status, started_at |-> now,
    completed_at |-> now, output |-> output, error |-> error ]

\* A new record that already counts the initial review as done.
NewTaskRecord_reviewed(task_id, intent, now) ==
  [ task_id |-> task_id, intent |-> intent, created_at |-> now,
    organization |-> None, team |-> None, agent |-> None,
    repository |-> None, branch |-> None,
    steps |-> << StepResult(1, COMPLETED, now, Some({}), None) >>,
    witness_hash |-> None ]

NewTaskRecord(task_id, intent, now) ==
  [ task_id |-> task_id, intent |-> intent, created_at |-> now,
    organization |-> None, team |-> None, agent |-> None,
    repository |-> None, branch |-> None,
    steps |-> << >>, witness_hash |-> None ]

CompletedSteps(task) ==
  { task.steps[i].step :
      i \in { j \in 1..Len(task.steps) : task.steps[j].status = COMPLETED } }

\* current_step with the wrong status constant: a step counts as done once it
\* has a FAILED entry.
current_step_wrong_status(task) ==
  LET done == { task.steps[i].step :
                  i \in { j \in 1..Len(task.steps) :
                            task.steps[j].status = FAILED } }
      pending == ScaffoldStep \ done
  IN  IF pending = {}
        THEN None
        ELSE Some(CHOOSE s \in pending : \A r \in pending : s <= r)

\* current_step scanning the catalog in reverse.
current_step_reversed(task) ==
  LET pending == ScaffoldStep \ CompletedSteps(task)
  IN  IF pending = {}
        THEN None
        ELSE Some(CHOOSE s \in pending : \A r \in pending : s >= r)

\* current_step without the status filter: any entry marks its step done.
current_step_any_status(task) ==
  LET done == { task.steps[i].step : i \in 1..Len(task.steps) }
      pending == ScaffoldStep \ done
  IN  IF pending = {}
        THEN None
        ELSE Some(CHOOSE s \in pending : \A r \in pending : s <= r)

\* TaskRecord.current_step: the first step, in catalog order, that has no
\* COMPLETED entry, or None.
current_step(task) ==
  LET pending == ScaffoldStep \ CompletedSteps(task)
  IN  IF pending = {}
        THEN None
        ELSE Some(CHOOSE s \in pending : \A r \in pending : s <= r)

\* ------------------------------------------------------------- witness hash
Sha256(payload) == [ sha256 |-> payload ]

\* The payload with each entry's output and error serialised too.
WitnessPayload_with_output(task) ==
  [ intent |-> task.intent,
    steps |-> [ i \in 1..Len(task.steps) |->
                 [ completed_at |-> task.steps[i].completed_at,
                   error |-> task.steps[i].error,
                   output |-> task.steps[i].output,
                   status |-> task.steps[i].status,
                   step |-> StepName[task.steps[i].step] ] ],
    task_id |-> task.task_id ]

\* The payload without the completion timestamps.
WitnessPayload_no_timestamp(task) ==
  [ intent |-> task.intent,
    steps |-> [ i \in 1..Len(task.steps) |->
                 [ status |-> task.steps[i].status,
                   step |-> StepName[task.steps[i].step] ] ],
    task_id |-> task.task_id ]

WitnessPayload(task) ==
  [ intent |-> task.intent,
    steps |-> [ i \in 1..Len(task.steps) |->
                 [ completed_at |-> task.steps[i].completed_at,
                   status |-> task.steps[i].status,
                   step |-> StepName[task.steps[i].step] ] ],
    task_id |-> task.task_id ]

compute_witness_hash(task) == Sha256(WitnessPayload(task))

\* ------------------------------------------------------------------ budget
\* The exploration is bounded by how far a state departs from the plain run
\* (one task advanced with empty payloads at one clock reading, the last
\* call a successful create_task, advance or fail_step).  A departure is a
\* FAILED entry, a non-empty payload, a clock tick, a task beyond the first,
\* a history entry of a task other than the most advanced one, or a last
\* call that was a read or raised.  The steps of the engine themselves carry
\* no bound.
FailedCount(task) ==
  Cardinality({ i \in 1..Len(task.steps) : task.steps[i].status = FAILED })

PayloadCount(task) ==
  Cardinality({ i \in 1..Len(task.steps) :
                  task.steps[i].output \notin {None, Some({})} })

\* The departures within one task, its history length included.
TaskExtras(task) == FailedCount(task) + PayloadCount(task) + Len(task.steps)

RECURSIVE SumExtras(_)
SumExtras(S) ==
  IF S = {} THEN 0
  ELSE LET t == CHOOSE x \in S : TRUE
       IN  TaskExtras(tasks[t]) + SumExtras(S \ {t})

Longest ==
  IF DOMAIN tasks = {} THEN 0
  ELSE LET t == CHOOSE x \in DOMAIN tasks :
                  \A y \in DOMAIN tasks : Len(tasks[y].steps) <= Len(tasks[x].steps)
       IN  Len(tasks[t].steps)

Extras ==
  SumExtras(DOMAIN tasks) - Longest
  + clock
  + (IF DOMAIN tasks = {} THEN 0 ELSE Cardinality(DOMAIN tasks) - 1)
  + (IF result.op \in {"get_task", "get_task_status"} \/ result.raised # "none"
       THEN 1 ELSE 0)

WithinBudget == Extras <= MaxExtras

\* ----------------------------------------------------------------- results
Returned(op, task_id, value) ==
  [ op |-> op, task_id |-> task_id, raised |-> "none", value |-> value ]

Raised(op, task_id, exc) ==
  [ op |-> op, task_id |-> task_id, raised |-> exc, value |-> None ]

\* ------------------------------------------------------------------- engine
Init ==
  /\ tasks = << >>
  /\ clock = 0
  /\ result = Returned("init", 0, None)
  /\ calls = [ th \in Threads |-> Idle ]

Tick ==
  /\ clock' = clock + 1
  /\ UNCHANGED <<tasks, result>>

\* An identifier generator that returns an identifier it has handed out before.
uuid4_repeats ==
  IF DOMAIN tasks = {} THEN Cardinality(DOMAIN tasks) + 1
  ELSE CHOOSE t \in DOMAIN tasks : TRUE

\* uuid.uuid4(): an identifier no earlier call returned.
uuid4 == Cardinality(DOMAIN tasks) + 1

create_task(intent) ==
  /\ LET task_id == uuid4
         task == NewTaskRecord(task_id, intent, clock)
     IN  /\ tasks' = [ t \in DOMAIN tasks \cup {task_id} |->
                        IF t = task_id THEN task ELSE tasks[t] ]
         /\ result' = Returned("create_task", task_id, Some(task))
  /\ UNCHANGED clock

\* The organization read from the payload on every advance, with neither the
\* stage nor the payload tested.
UpdateMetadata_overwrites(task, step, output) ==
  LET organized ==
        [ task EXCEPT !.organization = DictGet(OrEmpty(output), "organization") ]
  IN  IF step = TASK_TO_TEAM /\ Truthy(output)
        THEN [ organized EXCEPT !.team = DictGet(output[1], "team") ]
      ELSE IF step = TASK_TO_AGENT /\ Truthy(output)
        THEN [ organized EXCEPT !.agent = DictGet(output[1], "agent") ]
      ELSE IF step = TASK_TO_REPOSITORY /\ Truthy(output)
        THEN [ organized EXCEPT !.repository = DictGet(output[1], "repository"),
                                !.branch = DictGet(output[1], "branch") ]
      ELSE organized

\* The resolved fields taken from the payload whatever the stage completed.
UpdateMetadata_any_stage(task, step, output) ==
  IF Truthy(output)
    THEN [ task EXCEPT
             !.organization = IF DictGet(output[1], "organization") # None
                                THEN DictGet(output[1], "organization") ELSE @,
             !.team = IF step = TASK_TO_TEAM THEN DictGet(output[1], "team") ELSE @,
             !.agent = IF step = TASK_TO_AGENT THEN DictGet(output[1], "agent") ELSE @,
             !.repository = IF step = TASK_TO_REPOSITORY
                              THEN DictGet(output[1], "repository") ELSE @,
             !.branch = IF step = TASK_TO_REPOSITORY
                          THEN DictGet(output[1], "branch") ELSE @ ]
    ELSE task

\* The stage after TASK_TO_TEAM taken for the agent-assignment stage.
UpdateMetadata_agent_at_project(task, step, output) ==
  IF step = TASK_TO_ORGANIZATION /\ Truthy(output)
    THEN [ task EXCEPT !.organization = DictGet(output[1], "organization") ]
  ELSE IF step = TASK_TO_TEAM /\ Truthy(output)
    THEN [ task EXCEPT !.team = DictGet(output[1], "team") ]
  ELSE IF step = TASK_TO_TEAM + 1 /\ Truthy(output)
    THEN [ task EXCEPT !.agent = DictGet(output[1], "agent") ]
  ELSE IF step = TASK_TO_REPOSITORY /\ Truthy(output)
    THEN [ task EXCEPT !.repository = DictGet(output[1], "repository"),
                       !.branch = DictGet(output[1], "branch") ]
  ELSE task

\* The resolved fields after completing `step` with `output`.
UpdateMetadata(task, step, output) ==
  IF step = TASK_TO_ORGANIZATION /\ Truthy(output)
    THEN [ task EXCEPT !.organization = DictGet(output[1], "organization") ]
  ELSE IF step = TASK_TO_TEAM /\ Truthy(output)
    THEN [ task EXCEPT !.team = DictGet(output[1], "team") ]
  ELSE IF step = TASK_TO_AGENT /\ Truthy(output)
    THEN [ task EXCEPT !.agent = DictGet(output[1], "agent") ]
  ELSE IF step = TASK_TO_REPOSITORY /\ Truthy(output)
    THEN [ task EXCEPT !.repository = DictGet(output[1], "repository"),
                       !.branch = DictGet(output[1], "branch") ]
  ELSE task

\* advance taking the start of the step to be the creation of the task.
Advanced_started_at_creation(task, output, now) ==
  LET step == current_step(task)[1]
      res == [ StepResult(step, COMPLETED, now, Some(OrEmpty(output)), None)
                 EXCEPT !.started_at = task.created_at ]
      appended == [ task EXCEPT !.steps = Append(task.steps, res) ]
      updated == UpdateMetadata(appended, step, output)
  IN  [ updated EXCEPT !.witness_hash = Some(compute_witness_hash(updated)) ]

\* advance writing over a trailing FAILED entry of the stage it completes.
Advanced_overwrites_failed(task, output, now) ==
  LET step == current_step(task)[1]
      n == Len(task.steps)
      res == StepResult(step, COMPLETED, now, Some(OrEmpty(output)), None)
      appended == IF n > 0 /\ task.steps[n].status = FAILED
                    THEN [ task EXCEPT !.steps[n] = res ]
                    ELSE [ task EXCEPT !.steps = Append(task.steps, res) ]
      updated == UpdateMetadata(appended, step, output)
  IN  [ updated EXCEPT !.witness_hash = Some(compute_witness_hash(updated)) ]

\* advance with the digest chained from the stored one.
Advanced_chained(task, output, now) ==
  LET step == current_step(task)[1]
      res == StepResult(step, COMPLETED, now, Some(OrEmpty(output)), None)
      appended == [ task EXCEPT !.steps = Append(task.steps, res) ]
      updated == UpdateMetadata(appended, step, output)
  IN  [ updated EXCEPT
          !.witness_hash = Some(Sha256([ previous |-> task.witness_hash,
                                         payload |-> WitnessPayload(updated) ])) ]

\* The record after the successful path of advance.
Advanced(task, output, now) ==
  LET step == current_step(task)[1]
      res == StepResult(step, COMPLETED, now, Some(OrEmpty(output)), None)
      appended == [ task EXCEPT !.steps = Append(task.steps, res) ]
      updated == UpdateMetadata(appended, step, output)
  IN  [ updated EXCEPT !.witness_hash = Some(compute_witness_hash(updated)) ]

\* advance storing the digest on the class, not on the record: every
\* registered task shows the digest computed last.
advance_shared_digest(task_id, output) ==
  /\ UNCHANGED clock
  /\ IF task_id \notin DOMAIN tasks
       THEN /\ result' = Raised("advance", task_id, "KeyError")
            /\ UNCHANGED tasks
     ELSE IF current_step(tasks[task_id]) = None
       THEN /\ result' = Raised("advance", task_id, "RuntimeError")
            /\ UNCHANGED tasks
     ELSE LET task == Advanced(tasks[task_id], output, clock)
          IN  /\ tasks' = [ t \in DOMAIN tasks |->
                             IF t = task_id THEN task
                             ELSE [ tasks[t] EXCEPT
                                      !.witness_hash = task.witness_hash ] ]
              /\ result' = Returned("advance", task_id,
                                    Some(task.steps[Len(task.steps)]))

\* advance taking the last stage for the end of the scaffold: it refuses a task
\* whose current step is the last one.
advance_stops_before_last(task_id, output) ==
  /\ UNCHANGED clock
  /\ IF task_id \notin DOMAIN tasks
       THEN /\ result' = Raised("advance", task_id, "KeyError")
            /\ UNCHANGED tasks
     ELSE IF current_step(tasks[task_id]) \in {None, Some(NumSteps)}
       THEN /\ result' = Raised("advance", task_id, "RuntimeError")
            /\ UNCHANGED tasks
     ELSE LET task == Advanced(tasks[task_id], output, clock)
          IN  /\ tasks' = [ tasks EXCEPT ![task_id] = task ]
              /\ result' = Returned("advance", task_id,
                                    Some(task.steps[Len(task.steps)]))

\* advance without the completion check: on a finished task the last stage is
\* completed once more and the call returns normally.
advance_no_complete_check(task_id, output) ==
  /\ UNCHANGED clock
  /\ IF task_id \notin DOMAIN tasks
       THEN /\ result' = Raised("advance", task_id, "KeyError")
            /\ UNCHANGED tasks
     ELSE LET old == tasks[task_id]
              step == IF current_step(old) = None THEN NumSteps
                                                  ELSE current_step(old)[1]
              res == StepResult(step, COMPLETED, clock, Some(OrEmpty(output)), None)
              appended == [ old EXCEPT !.steps = Append(old.steps, res) ]
              updated == UpdateMetadata(appended, step, output)
              task == [ updated EXCEPT
                          !.witness_hash = Some(compute_witness_hash(updated)) ]
          IN  /\ tasks' = [ tasks EXCEPT ![task_id] = task ]
              /\ result' = Returned("advance", task_id, Some(res))

advance(task_id, output) ==
  /\ UNCHANGED clock
  /\ IF task_id \notin DOMAIN tasks
       THEN /\ result' = Raised("advance", task_id, "KeyError")
            /\ UNCHANGED tasks
     ELSE IF current_step(tasks[task_id]) = None
       THEN /\ result' = Raised("advance", task_id, "RuntimeError")
            /\ UNCHANGED tasks
     ELSE LET task == Advanced(tasks[task_id], output, clock)
          IN  /\ tasks' = [ tasks EXCEPT ![task_id] = task ]
              /\ result' = Returned("advance", task_id,
                                    Some(task.steps[Len(task.steps)]))

\* fail_step marking the stage that was executed last, not the current one.
Failed_last_executed(task, error, now) ==
  LET n == Len(task.steps)
      step == IF n = 0 THEN current_step(task)[1] ELSE task.steps[n].step
      res == StepResult(step, FAILED, now, None, Some(error))
      appended == [ task EXCEPT !.steps = Append(task.steps, res) ]
  IN  [ appended EXCEPT !.witness_hash = Some(compute_witness_hash(appended)) ]

\* fail_step without the digest recomputation.
Failed_keeps_digest(task, error, now) ==
  LET step == current_step(task)[1]
      res == StepResult(step, FAILED, now, None, Some(error))
  IN  [ task EXCEPT !.steps = Append(task.steps, res) ]

\* fail_step copied from advance with the status left as COMPLETED.
Failed_as_completed(task, error, now) ==
  LET step == current_step(task)[1]
      res == StepResult(step, COMPLETED, now, None, Some(error))
      appended == [ task EXCEPT !.steps = Append(task.steps, res) ]
  IN  [ appended EXCEPT !.witness_hash = Some(compute_witness_hash(appended)) ]

\* fail_step marking the latest entry FAILED instead of appending one.
Failed_reopens(task, error, now) ==
  LET n == Len(task.steps)
      step == current_step(task)[1]
      res == StepResult(step, FAILED, now, None, Some(error))
      marked == IF n = 0
                  THEN [ task EXCEPT !.steps = << res >> ]
                  ELSE [ task EXCEPT !.steps[n].status = FAILED,
                                     !.steps[n].error = Some(error) ]
  IN  [ marked EXCEPT !.witness_hash = Some(compute_witness_hash(marked)) ]

\* The record after the successful path of fail_step.
Failed(task, error, now) ==
  LET step == current_step(task)[1]
      res == StepResult(step, FAILED, now, None, Some(error))
      appended == [ task EXCEPT !.steps = Append(task.steps, res) ]
  IN  [ appended EXCEPT !.witness_hash = Some(compute_witness_hash(appended)) ]

\* fail_step without the completion check: on a finished task a FAILED entry
\* for the last stage is appended.
fail_step_no_complete_check(task_id, error) ==
  /\ UNCHANGED clock
  /\ IF task_id \notin DOMAIN tasks
       THEN /\ result' = Raised("fail_step", task_id, "KeyError")
            /\ UNCHANGED tasks
     ELSE LET old == tasks[task_id]
              step == IF current_step(old) = None THEN NumSteps
                                                  ELSE current_step(old)[1]
              res == StepResult(step, FAILED, clock, None, Some(error))
              appended == [ old EXCEPT !.steps = Append(old.steps, res) ]
              task == [ appended EXCEPT
                          !.witness_hash = Some(compute_witness_hash(appended)) ]
          IN  /\ tasks' = [ tasks EXCEPT ![task_id] = task ]
              /\ result' = Returned("fail_step", task_id, Some(res))

fail_step(task_id, error) ==
  /\ UNCHANGED clock
  /\ IF task_id \notin DOMAIN tasks
       THEN /\ result' = Raised("fail_step", task_id, "KeyError")
            /\ UNCHANGED tasks
     ELSE IF current_step(tasks[task_id]) = None
       THEN /\ result' = Raised("fail_step", task_id, "RuntimeError")
            /\ UNCHANGED tasks
     ELSE LET task == Failed(tasks[task_id], error, clock)
          IN  /\ tasks' = [ tasks EXCEPT ![task_id] = task ]
              /\ result' = Returned("fail_step", task_id,
                                    Some(task.steps[Len(task.steps)]))

\* get_task refusing an unknown id the way the other operations do.
get_task_raises(task_id) ==
  /\ IF task_id \notin DOMAIN tasks
       THEN result' = Raised("get_task", task_id, "KeyError")
       ELSE result' = Returned("get_task", task_id, Some(tasks[task_id]))
  /\ UNCHANGED <<tasks, clock>>

get_task(task_id) ==
  /\ result' = Returned("get_task", task_id,
                        IF task_id \in DOMAIN tasks
                          THEN Some(tasks[task_id]) ELSE None)
  /\ UNCHANGED <<tasks, clock>>

\* The summary reporting "COMPLETE" as soon as the last stage is the current
\* one.
TaskStatus_complete_early(task) ==
  LET current == current_step(task)
  IN  [ task_id |-> task.task_id,
        intent |-> task.intent,
        organization |-> task.organization,
        current_step |-> IF current # None /\ current[1] < NumSteps
                           THEN StepName[current[1]]
                           ELSE "COMPLETE",
        steps_completed |-> Cardinality({ i \in 1..Len(task.steps) :
                                            task.steps[i].status = COMPLETED }),
        total_steps |-> Cardinality(ScaffoldStep),
        witness_hash |-> task.witness_hash ]

\* The summary counting every history entry as a completed step.
TaskStatus_counts_failed(task) ==
  LET current == current_step(task)
  IN  [ task_id |-> task.task_id,
        intent |-> task.intent,
        organization |-> task.organization,
        current_step |-> IF current # None THEN StepName[current[1]]
                                           ELSE "COMPLETE",
        steps_completed |-> Len(task.steps),
        total_steps |-> Cardinality(ScaffoldStep),
        witness_hash |-> task.witness_hash ]

\* The summary get_task_status returns for a registered task.
TaskStatus(task) ==
  LET current == current_step(task)
  IN  [ task_id |-> task.task_id,
        intent |-> task.intent,
        organization |-> task.organization,
        current_step |-> IF current # None THEN StepName[current[1]]
                                           ELSE "COMPLETE",
        steps_completed |-> Cardinality({ i \in 1..Len(task.steps) :
                                            task.steps[i].status = COMPLETED }),
        total_steps |-> Cardinality(ScaffoldStep),
        witness_hash |-> task.witness_hash ]

\* get_task_status answering an unknown id the way get_task does.
get_task_status_lenient(task_id) ==
  /\ IF task_id \notin DOMAIN tasks
       THEN result' = Returned("get_task_status", task_id, None)
       ELSE result' = Returned("get_task_status", task_id,
                               Some(TaskStatus(tasks[task_id])))
  /\ UNCHANGED <<tasks, clock>>

get_task_status(task_id) ==
  /\ IF task_id \notin DOMAIN tasks
       THEN result' = Raised("get_task_status", task_id, "KeyError")
       ELSE result' = Returned("get_task_status", task_id,
                               Some(TaskStatus(tasks[task_id])))
  /\ UNCHANGED <<tasks, clock>>

\* One caller at a time: every call runs from its first line to its return
\* before the next one starts.
Next ==
  \/ Tick /\ UNCHANGED calls /\ WithinBudget'
  \/ \E intent \in Intents :
       create_task(intent) /\ UNCHANGED calls /\ WithinBudget'
  \/ \E task_id \in IdSpace, output \in Outputs :
       advance(task_id, output) /\ UNCHANGED calls /\ WithinBudget'
  \/ \E task_id \in IdSpace, error \in Errors :
       fail_step(task_id, error) /\ UNCHANGED calls /\ WithinBudget'
  \/ \E task_id \in IdSpace :
       get_task(task_id) /\ UNCHANGED calls /\ WithinBudget'
  \/ \E task_id \in IdSpace :
       get_task_status(task_id) /\ UNCHANGED calls /\ WithinBudget'

Spec == Init /\ [][Next]_vars

\* ------------------------------------------------------ persistent callers
\* For what a caller that keeps calling advance reaches, every registered
\* task must be free to advance: the departures counted here are those of
\* Extras but for the history entries of the tasks other than the most
\* advanced one.
RECURSIVE SumFailedAndPayloads(_)
SumFailedAndPayloads(S) ==
  IF S = {} THEN 0
  ELSE LET t == CHOOSE x \in S : TRUE
       IN  FailedCount(tasks[t]) + PayloadCount(tasks[t])
             + SumFailedAndPayloads(S \ {t})

FairBudget ==
  SumFailedAndPayloads(DOMAIN tasks)
  + clock
  + (IF DOMAIN tasks = {} THEN 0 ELSE Cardinality(DOMAIN tasks) - 1)
  + (IF result.op \in {"get_task", "get_task_status"} \/ result.raised # "none"
       THEN 1 ELSE 0)
    <= MaxExtras

FairNext ==
  \/ Tick /\ UNCHANGED calls /\ FairBudget'
  \/ \E intent \in Intents :
       create_task(intent) /\ UNCHANGED calls /\ FairBudget'
  \/ \E task_id \in IdSpace, output \in Outputs :
       advance(task_id, output) /\ UNCHANGED calls /\ FairBudget'
  \/ \E task_id \in IdSpace, error \in Errors :
       fail_step(task_id, error) /\ UNCHANGED calls /\ FairBudget'
  \/ \E task_id \in IdSpace :
       get_task(task_id) /\ UNCHANGED calls /\ FairBudget'
  \/ \E task_id \in IdSpace :
       get_task_status(task_id) /\ UNCHANGED calls /\ FairBudget'

\* A call of advance on task_id with no payload.
KeepsAdvancing(task_id) ==
  advance(task_id, None) /\ UNCHANGED calls /\ FairBudget'

\* One caller at a time, and for every task a caller that keeps calling
\* advance on it: the engine schedules nothing itself (scaffold.py:147-196
\* runs when called), so the fairness is that of the callers.
FairSpec ==
  /\ Init
  /\ [][FairNext]_vars
  /\ \A task_id \in IdSpace : WF_vars(KeepsAdvancing(task_id))

\* ------------------------------------------------------- concurrent callers
\* The engine holds no lock (scaffold.py:127-128 creates only the dict), so
\* callers on several threads interleave between the statements of advance
\* and fail_step.  Each action below is one run of consecutive statements of
\* one caller; the statements that read or write the shared record are in
\* different actions.  The interpreter may switch threads more often than
\* this, so these interleavings are among those the program has.

\* advance, lines 165-180: look the task up, read its current step, read the
\* clock and build the StepResult.
advance_check(th, task_id, output) ==
  /\ calls[th].pc = "idle"
  /\ UNCHANGED <<tasks, clock>>
  /\ IF task_id \notin DOMAIN tasks
       THEN /\ result' = Raised("advance", task_id, "KeyError")
            /\ UNCHANGED calls
     ELSE IF current_step(tasks[task_id]) = None
       THEN /\ result' = Raised("advance", task_id, "RuntimeError")
            /\ UNCHANGED calls
     ELSE /\ calls' = [ calls EXCEPT ![th] =
                          [ pc |-> "advance_append", task_id |-> task_id,
                            output |-> output, error |-> None,
                            step |-> current_step(tasks[task_id])[1],
                            now |-> clock ] ]
          /\ UNCHANGED result

\* advance, line 181: task.steps.append(result).
advance_append(th) ==
  LET c == calls[th]
      res == StepResult(c.step, COMPLETED, c.now, Some(OrEmpty(c.output)), None)
  IN  /\ c.pc = "advance_append"
      /\ tasks' = [ tasks EXCEPT ![c.task_id].steps = Append(@, res) ]
      /\ calls' = [ calls EXCEPT ![th].pc = "advance_metadata" ]
      /\ UNCHANGED <<clock, result>>

\* advance, lines 184-192: the resolved fields.
advance_metadata(th) ==
  LET c == calls[th]
  IN  /\ c.pc = "advance_metadata"
      /\ tasks' = [ tasks EXCEPT ![c.task_id] = UpdateMetadata(@, c.step, c.output) ]
      /\ calls' = [ calls EXCEPT ![th].pc = "advance_hash" ]
      /\ UNCHANGED <<clock, result>>

\* advance, lines 195-196: store the digest of the record as it is now and
\* return the StepResult.
advance_hash(th) ==
  LET c == calls[th]
      res == StepResult(c.step, COMPLETED, c.now, Some(OrEmpty(c.output)), None)
  IN  /\ c.pc = "advance_hash"
      /\ tasks' = [ tasks EXCEPT ![c.task_id].witness_hash =
                                   Some(compute_witness_hash(tasks[c.task_id])) ]
      /\ result' = Returned("advance", c.task_id, Some(res))
      /\ calls' = [ calls EXCEPT ![th] = Idle ]
      /\ UNCHANGED clock

\* fail_step, lines 212-227: look the task up, read its current step, read
\* the clock and build the StepResult.
fail_step_check(th, task_id, error) ==
  /\ calls[th].pc = "idle"
  /\ UNCHANGED <<tasks, clock>>
  /\ IF task_id \notin DOMAIN tasks
       THEN /\ result' = Raised("fail_step", task_id, "KeyError")
            /\ UNCHANGED calls
     ELSE IF current_step(tasks[task_id]) = None
       THEN /\ result' = Raised("fail_step", task_id, "RuntimeError")
            /\ UNCHANGED calls
     ELSE /\ calls' = [ calls EXCEPT ![th] =
                          [ pc |-> "fail_step_append", task_id |-> task_id,
                            output |-> None, error |-> Some(error),
                            step |-> current_step(tasks[task_id])[1],
                            now |-> clock ] ]
          /\ UNCHANGED result

\* fail_step, line 228: task.steps.append(result).
fail_step_append(th) ==
  LET c == calls[th]
      res == StepResult(c.step, FAILED, c.now, None, c.error)
  IN  /\ c.pc = "fail_step_append"
      /\ tasks' = [ tasks EXCEPT ![c.task_id].steps = Append(@, res) ]
      /\ calls' = [ calls EXCEPT ![th].pc = "fail_step_hash" ]
      /\ UNCHANGED <<clock, result>>

\* fail_step, lines 229-230: store the digest and return the StepResult.
fail_step_hash(th) ==
  LET c == calls[th]
      res == StepResult(c.step, FAILED, c.now, None, c.error)
  IN  /\ c.pc = "fail_step_hash"
      /\ tasks' = [ tasks EXCEPT ![c.task_id].witness_hash =
                                   Some(compute_witness_hash(tasks[c.task_id])) ]
      /\ result' = Returned("fail_step", c.task_id, Some(res))
      /\ calls' = [ calls EXCEPT ![th] = Idle ]
      /\ UNCHANGED clock

\* With callers on several threads, a departure from the plain run is also a
\* history entry for a stage that was not the current one when it was
\* appended, and a call in progress that is about to append a FAILED entry or
\* a non-empty payload or that another call has overtaken.  The interleavings
\* are explored over histories of at most MaxConcurrentSteps entries.

\* The record `task` cut back to its first n history entries.
Prefix(task, n) == [ task EXCEPT !.steps = SubSeq(task.steps, 1, n) ]

\* The entries of `task` for a stage other than the one that was current
\* given the entries before them.
OutOfTurn(task) ==
  { i \in 1..Len(task.steps) :
      Some(task.steps[i].step) # current_step(Prefix(task, i - 1)) }

RECURSIVE SumOutOfTurn(_)
SumOutOfTurn(S) ==
  IF S = {} THEN 0
  ELSE LET t == CHOOSE x \in S : TRUE
       IN  Cardinality(OutOfTurn(tasks[t])) + SumOutOfTurn(S \ {t})

\* The call in frame c has been overtaken: the stage it read is no longer the
\* current one, or the entry it appended is no longer the last one.
Overtaken(c) ==
  /\ c.pc # "idle"
  /\ LET task == tasks[c.task_id]
     IN  IF c.pc \in {"advance_append", "fail_step_append"}
           THEN current_step(task) # Some(c.step)
           ELSE \/ task.steps[Len(task.steps)].step # c.step
                \/ task.steps[Len(task.steps)].status
                     # (IF c.pc = "fail_step_hash" THEN FAILED ELSE COMPLETED)

Pending ==
  Cardinality({ th \in Threads :
                  \/ calls[th].pc = "fail_step_append"
                  \/ calls[th].pc = "advance_append" /\ Truthy(calls[th].output)
                  \/ Overtaken(calls[th]) })

ConcurrentBudget ==
  /\ Extras + SumOutOfTurn(DOMAIN tasks) + Pending <= MaxExtras
  /\ \A t \in DOMAIN tasks : Len(tasks[t].steps) <= MaxConcurrentSteps

\* Callers on several threads: the reads and create_task are one dict
\* operation each, advance and fail_step go statement by statement.
ConcurrentNext ==
  \/ Tick /\ UNCHANGED calls /\ ConcurrentBudget'
  \/ \E intent \in Intents :
       create_task(intent) /\ UNCHANGED calls /\ ConcurrentBudget'
  \/ \E th \in Threads, task_id \in IdSpace, output \in Outputs :
       advance_check(th, task_id, output) /\ ConcurrentBudget'
  \/ \E th \in Threads : advance_append(th) /\ ConcurrentBudget'
  \/ \E th \in Threads : advance_metadata(th) /\ ConcurrentBudget'
  \/ \E th \in Threads : advance_hash(th) /\ ConcurrentBudget'
  \/ \E th \in Threads, task_id \in IdSpace, error \in Errors :
       fail_step_check(th, task_id, error) /\ ConcurrentBudget'
  \/ \E th \in Threads : fail_step_append(th) /\ ConcurrentBudget'
  \/ \E th \in Threads : fail_step_hash(th) /\ ConcurrentBudget'
  \/ \E task_id \in IdSpace :
       get_task(task_id) /\ UNCHANGED calls /\ ConcurrentBudget'
  \/ \E task_id \in IdSpace :
       get_task_status(task_id) /\ UNCHANGED calls /\ ConcurrentBudget'

ConcurrentSpec == Init /\ [][ConcurrentNext]_vars

\* ===================================================================== claims
\* The number of entries of `task` for `step` with `status`.
EntryCount(task, step, status) ==
  Cardinality({ i \in 1..Len(task.steps) :
                  task.steps[i].step = step /\ task.steps[i].status = status })

\* The rank of a current_step result; the terminal sentinel ranks last.
StepRank(current) == IF current = None THEN NumSteps + 1 ELSE current[1]

IsComplete(task) == current_step(task) = None

\* C1: the history of every task holds at most one COMPLETED entry for each of
\* the ten stages.
C1_AtMostOneCompleted ==
  \A t \in DOMAIN tasks : \A s \in ScaffoldStep :
    EntryCount(tasks[t], s, COMPLETED) <= 1

\* A finished task one of whose stages failed before it completed.
C1_Witness ==
  \E t \in DOMAIN tasks : \E s \in ScaffoldStep :
    /\ IsComplete(tasks[t])
    /\ EntryCount(tasks[t], s, FAILED) >= 1
    /\ EntryCount(tasks[t], s, COMPLETED) = 1

\* C2: the stages with a COMPLETED entry are exactly the ranks 1..k,
\* current_step is the stage of rank k+1 (the sentinel when k = 10), and every
\* entry was appended when all lower-ranked stages were already COMPLETED.
C2_AscendingRankOrder ==
  \A t \in DOMAIN tasks :
    LET task == tasks[t]
        k == Cardinality(CompletedSteps(task))
    IN  /\ k \in 0..NumSteps
        /\ CompletedSteps(task) = 1..k
        /\ current_step(task) = IF k = NumSteps THEN None ELSE Some(k + 1)
        /\ \A i \in 1..Len(task.steps) :
             \A r \in 1..(task.steps[i].step - 1) :
               \E j \in 1..(i - 1) :
                 /\ task.steps[j].step = r
                 /\ task.steps[j].status = COMPLETED

\* A task part of the way through, with a failed attempt behind it.
C2_Witness ==
  \E t \in DOMAIN tasks :
    /\ Cardinality(CompletedSteps(tasks[t])) = 6
    /\ current_step(tasks[t]) = Some(7)
    /\ FailedCount(tasks[t]) >= 1

\* current_step is the terminal sentinel exactly when each of the ten stages
\* has one COMPLETED entry.
SentinelIffAllCompleted ==
  \A t \in DOMAIN tasks :
    IsComplete(tasks[t]) <=>
      \A s \in ScaffoldStep : EntryCount(tasks[t], s, COMPLETED) = 1

\* C3: current_step never moves back to a lower rank, and it is the terminal
\* sentinel exactly when each of the ten stages has one COMPLETED entry.
C3_MonotoneCurrentStep ==
  /\ []SentinelIffAllCompleted
  /\ [][ \A t \in DOMAIN tasks :
           StepRank(current_step(tasks[t])) <= StepRank(current_step(tasks'[t])) ]_vars

\* A task that has reached the sentinel after a failed attempt at the last stage.
C3_Witness ==
  \E t \in DOMAIN tasks :
    /\ IsComplete(tasks[t])
    /\ EntryCount(tasks[t], NumSteps, FAILED) >= 1

\* ------------------------------------------------- how a step shows a call
\* The step is a call of `op` on `task_id`: every call records itself in
\* result, so a step that changes result to a record of that call is one.
Called(op, task_id) ==
  /\ result'.op = op
  /\ result'.task_id = task_id
  /\ result' # result

\* The step is a call of `op` on the registered `task_id` that went through.
Succeeded(op, task_id) ==
  /\ result'.op = op
  /\ result'.task_id = task_id
  /\ result'.raised = "none"
  /\ tasks'[task_id] # tasks[task_id]

LastEntry(task) == task.steps[Len(task.steps)]

CompletedEntries(task) ==
  Cardinality({ i \in 1..Len(task.steps) : task.steps[i].status = COMPLETED })

\* What C4 says of an advance that follows a fail_step on task t, but for the
\* stage that is current afterwards, given as `next`.
RetryCompletesSameStage(t, next) ==
  LET old == tasks[t].steps
      new == tasks'[t].steps
      n == Len(old)
      s == old[n].step
  IN  /\ Len(new) = n + 1
      /\ SubSeq(new, 1, n) = old
      /\ new[n].step = s /\ new[n].status = FAILED
      /\ new[n + 1].step = s /\ new[n + 1].status = COMPLETED
      /\ current_step(tasks'[t]) = next

\* The last successful call on task t was a fail_step: calls that raise and
\* reads leave the history alone, so this is when its last entry is FAILED.
FailedLast(t) ==
  /\ Len(tasks[t].steps) > 0
  /\ LastEntry(tasks[t]).status = FAILED

\* C4 as stated: after fail_step then advance, the history ends with FAILED s,
\* COMPLETED s and current_step is the stage of rank s+1.
C4_AsStated ==
  [][ \A t \in DOMAIN tasks :
        (FailedLast(t) /\ Succeeded("advance", t)) =>
          RetryCompletesSameStage(t, Some(LastEntry(tasks[t]).step + 1)) ]_vars

\* C4 as amended: the same, with the terminal sentinel as the current step
\* when the stage retried is the last one.
C4_RetryCompletesSameStage ==
  [][ \A t \in DOMAIN tasks :
        (FailedLast(t) /\ Succeeded("advance", t)) =>
          RetryCompletesSameStage(t,
            IF LastEntry(tasks[t]).step = NumSteps
              THEN None
              ELSE Some(LastEntry(tasks[t]).step + 1)) ]_vars

\* A history that ends with a failed and then a completed attempt at one stage.
C4_Witness ==
  \E t \in DOMAIN tasks :
    LET n == Len(tasks[t].steps)
    IN  /\ n >= 2
        /\ result = Returned("advance", t, Some(tasks[t].steps[n]))
        /\ tasks[t].steps[n - 1].status = FAILED
        /\ tasks[t].steps[n].status = COMPLETED
        /\ tasks[t].steps[n - 1].step = tasks[t].steps[n].step

C6_AdvanceOnCompleteRaises ==
  [][ \A t \in DOMAIN tasks :
        (IsComplete(tasks[t]) /\ Called("advance", t)) =>
          /\ result'.raised = "RuntimeError"
          /\ tasks'[t] = tasks[t] ]_vars

\* advance has just raised RuntimeError on a finished task.
C6_Witness ==
  \E t \in DOMAIN tasks :
    /\ result = Raised("advance", t, "RuntimeError")
    /\ IsComplete(tasks[t])
    /\ Len(tasks[t].steps) = NumSteps
    /\ tasks[t].witness_hash # None

\* C7: advance, fail_step and get_task_status on an id that is not registered
\* raise KeyError and leave the registry as it was.
C7_UnknownIdRaisesKeyError ==
  [][ \A id \in IdSpace \ DOMAIN tasks :
        \A op \in {"advance", "fail_step", "get_task_status"} :
          Called(op, id) =>
            /\ result'.raised = "KeyError"
            /\ tasks' = tasks ]_vars

\* A call has just raised KeyError while a task with a history is registered.
C7_Witness ==
  /\ result.raised = "KeyError"
  /\ result.op = "get_task_status"
  /\ result.task_id \notin DOMAIN tasks
  /\ \E t \in DOMAIN tasks : Len(tasks[t].steps) > 0

\* C8: fail_step on a task whose ten stages are COMPLETED raises RuntimeError
\* and appends nothing; the history and digest of a finished task never change.
C8_FailStepOnCompleteRaises ==
  [][ \A t \in DOMAIN tasks :
        IsComplete(tasks[t]) =>
          /\ tasks'[t].steps = tasks[t].steps
          /\ tasks'[t].witness_hash = tasks[t].witness_hash
          /\ Called("fail_step", t) => result'.raised = "RuntimeError" ]_vars

\* fail_step has just raised RuntimeError on a finished task.
C8_Witness ==
  \E t \in DOMAIN tasks :
    /\ result = Raised("fail_step", t, "RuntimeError")
    /\ IsComplete(tasks[t])
    /\ Len(tasks[t].steps) >= NumSteps

\* ------------------------------------------------------- the witness digest
\* What the digest is a function of: the task id, the intent and the ordered
\* (stage name, status, completion timestamp) triples of the whole history.
Triples(task) ==
  [ i \in 1..Len(task.steps) |->
      << StepName[task.steps[i].step], task.steps[i].status,
         task.steps[i].completed_at >> ]

DigestInputs(task) == << task.task_id, task.intent, Triples(task) >>

\* The digest function applied to those inputs.
DigestOf(task_id, intent, triples) ==
  [ sha256 |->
      [ intent |-> intent,
        steps |-> [ i \in 1..Len(triples) |->
                     [ completed_at |-> triples[i][3],
                       status |-> triples[i][2],
                       step |-> triples[i][1] ] ],
        task_id |-> task_id ] ]

\* C9: once a task has a history, its stored digest is the digest function
\* applied to its id, its intent and the triples of its whole history, failed
\* attempts included; nothing of the digest stored before enters it.
C9_DigestOfFullHistory ==
  \A t \in DOMAIN tasks :
    Len(tasks[t].steps) > 0 =>
      tasks[t].witness_hash =
        Some(DigestOf(tasks[t].task_id, tasks[t].intent, Triples(tasks[t])))

\* A digest stored over a history of completed attempts and a failed one.
C9_Witness ==
  \E t \in DOMAIN tasks :
    LET n == Len(tasks[t].steps)
    IN  /\ n >= 3
        /\ FailedCount(tasks[t]) >= 1
        /\ CompletedEntries(tasks[t]) >= 2
        /\ tasks[t].witness_hash # None

\* The values a field is altered to.
AlteredSteps == { 1, TASK_TO_ORGANIZATION, NumSteps }
AlteredStatuses == { COMPLETED, FAILED, "skipped" }
AlteredTimes == { 0, MaxExtras + 1 }
AlteredTexts == { None, Some("other") }
AlteredOutputs == { None, Some(FullOutput) }

RemoveAt(seq, i) == SubSeq(seq, 1, i - 1) \o SubSeq(seq, i + 1, Len(seq))
RepeatAt(seq, i) == SubSeq(seq, 1, i) \o SubSeq(seq, i, Len(seq))
SwapAt(seq, i) ==
  [ j \in 1..Len(seq) |->
      IF j = i THEN seq[i + 1] ELSE IF j = i + 1 THEN seq[i] ELSE seq[j] ]

\* The records that differ from `task` in one field, one entry's field, or the
\* number or order of the entries.
Alterations(task) ==
  LET n == Len(task.steps)
  IN  { [ task EXCEPT !.task_id = x ] : x \in 0..(MaxExtras + 2) }
      \cup { [ task EXCEPT !.intent = x ] : x \in Intents \cup {"z"} }
      \cup { [ task EXCEPT !.created_at = x ] : x \in AlteredTimes }
      \cup { [ task EXCEPT !.organization = x ] : x \in AlteredTexts }
      \cup { [ task EXCEPT !.team = x ] : x \in AlteredTexts }
      \cup { [ task EXCEPT !.agent = x ] : x \in AlteredTexts }
      \cup { [ task EXCEPT !.repository = x ] : x \in AlteredTexts }
      \cup { [ task EXCEPT !.branch = x ] : x \in AlteredTexts }
      \cup { [ task EXCEPT !.witness_hash = None ] }
      \cup { [ task EXCEPT !.steps[i].step = x ] :
               i \in 1..n, x \in AlteredSteps }
      \cup { [ task EXCEPT !.steps[i].status = x ] :
               i \in 1..n, x \in AlteredStatuses }
      \cup { [ task EXCEPT !.steps[i].completed_at = x ] :
               i \in 1..n, x \in AlteredTimes }
      \cup { [ task EXCEPT !.steps[i].started_at = x ] :
               i \in 1..n, x \in AlteredTimes }
      \cup { [ task EXCEPT !.steps[i].output = x ] :
               i \in 1..n, x \in AlteredOutputs }
      \cup { [ task EXCEPT !.steps[i].error = x ] :
               i \in 1..n, x \in AlteredTexts }
      \cup { [ task EXCEPT !.steps = RemoveAt(task.steps, i) ] : i \in 1..n }
      \cup { [ task EXCEPT !.steps = RepeatAt(task.steps, i) ] : i \in 1..n }
      \cup { [ task EXCEPT !.steps = SwapAt(task.steps, i) ] :
               i \in 1..(n - 1) }

\* The last call stored a digest in task t.
JustStored(t) ==
  /\ result.op \in {"advance", "fail_step"}
  /\ result.raised = "none"
  /\ result.task_id = t

\* C10: the digest is a function of the digest inputs and of nothing else, and
\* it tells them apart: a record altered in one place has the digest that a
\* call has just stored for a task exactly when the two have the same inputs.
C10_DigestTellsInputsApart ==
  \A t \in DOMAIN tasks :
    JustStored(t) =>
      \A altered \in Alterations(tasks[t]) :
        (Some(compute_witness_hash(altered)) = tasks[t].witness_hash)
          <=> (DigestInputs(altered) = DigestInputs(tasks[t]))

\* A digest has just been stored over a history in which a stage failed and
\* was then completed, so that each kind of alteration applies.
C10_Witness ==
  \E t \in DOMAIN tasks :
    LET n == Len(tasks[t].steps)
    IN  /\ n >= 2
        /\ JustStored(t)
        /\ tasks[t].steps[n - 1].status = FAILED
        /\ tasks[t].steps[n].status = COMPLETED

\* ------------------------------------------------------- concurrent callers
\* The history is one that calls made one after the other produce: every
\* entry is for the stage that was current given the entries before it.
SequentialHistory(task) ==
  \A i \in 1..Len(task.steps) :
    Some(task.steps[i].step) = current_step(Prefix(task, i - 1))

\* C11: with callers on several threads, the history of every task is one that
\* some sequential order of the calls produces, and no stage has two COMPLETED
\* entries.
C11_SerializedTransitions ==
  \A t \in DOMAIN tasks :
    /\ SequentialHistory(tasks[t])
    /\ \A s \in ScaffoldStep : EntryCount(tasks[t], s, COMPLETED) <= 1

\* The history a stored digest was computed over, as the payload lists it:
\* none before the first digest is stored.
DigestedSteps(hash) == IF hash = None THEN << >> ELSE hash[1].sha256.steps

\* The names of the stages with a COMPLETED entry in a digested history.
DigestedCompleted(hash) ==
  LET steps == DigestedSteps(hash)
  IN  { steps[i].step : i \in { j \in 1..Len(steps) : steps[j].status = COMPLETED } }

\* The record returned by get_task shows one moment: its digest is the one of
\* the history it shows.
RecordIsSnapshot(task) ==
  task.witness_hash =
    IF Len(task.steps) = 0 THEN None ELSE Some(compute_witness_hash(task))

\* The summary returned by get_task_status shows one moment: its count of
\* COMPLETED entries and its current step are those of the history its
\* digest was computed over.
StatusIsSnapshot(status) ==
  LET steps == DigestedSteps(status.witness_hash)
      done == DigestedCompleted(status.witness_hash)
      pending == { s \in ScaffoldStep : StepName[s] \notin done }
  IN  /\ status.steps_completed =
           Cardinality({ i \in 1..Len(steps) : steps[i].status = COMPLETED })
      /\ status.current_step =
           IF pending = {} THEN "COMPLETE"
           ELSE StepName[CHOOSE s \in pending : \A r \in pending : s <= r]

\* C12: with callers on several threads, what get_task and get_task_status
\* return is a snapshot of one moment: never a history that holds a newly
\* appended entry together with the digest, the count of COMPLETED entries or
\* the current step from before that entry.
C12_ReadsSeeSnapshot ==
  /\ (result.op = "get_task" /\ result.value # None)
       => RecordIsSnapshot(result.value[1])
  /\ (result.op = "get_task_status" /\ result.raised = "none")
       => StatusIsSnapshot(result.value[1])

\* ---------------------------------------------------------- resolved fields
\* The payload carries the key.
Supplies(output, key) == Truthy(output) /\ DictGet(output[1], key) # None

\* C13: organization changes only in the advance that completes
\* TASK_TO_ORGANIZATION, which sets it from the "organization" key; an advance
\* given that key while another stage is current leaves organization as it
\* was and stores the payload, key included, as the output of the new entry.
C13_OrganizationOnlyAtItsStage ==
  [][ \A t \in DOMAIN tasks :
        /\ tasks'[t].organization # tasks[t].organization =>
             /\ Succeeded("advance", t)
             /\ current_step(tasks[t]) = Some(TASK_TO_ORGANIZATION)
        /\ \A output \in Outputs :
             (/\ ~IsComplete(tasks[t])
              /\ advance(t, output)
              /\ Supplies(output, "organization")) =>
               /\ LastEntry(tasks'[t]).output = output
               /\ IF current_step(tasks[t]) = Some(TASK_TO_ORGANIZATION)
                    THEN tasks'[t].organization = DictGet(output[1], "organization")
                    ELSE tasks'[t].organization = tasks[t].organization ]_vars

\* An advance has just completed TASK_TO_TEAM with a payload that carries the
\* "organization" key, and the organization is still not set.
C13_Witness ==
  \E t \in DOMAIN tasks :
    /\ JustStored(t)
    /\ Len(tasks[t].steps) > 0
    /\ LastEntry(tasks[t]).step = TASK_TO_TEAM
    /\ LastEntry(tasks[t]).status = COMPLETED
    /\ Supplies(LastEntry(tasks[t]).output, "organization")
    /\ tasks[t].organization = None
    /\ tasks[t].team # None

\* The five resolved fields of a record.
Resolved(task) ==
  << task.organization, task.team, task.agent, task.repository, task.branch >>

\* The stage whose completion sets each resolved field.
AssignmentStage ==
  << TASK_TO_ORGANIZATION, TASK_TO_TEAM, TASK_TO_AGENT,
     TASK_TO_REPOSITORY, TASK_TO_REPOSITORY >>

\* C14: a resolved field changes only in the advance that completes its
\* assignment stage; an advance on one of the other six stages and every
\* fail_step leave the five resolved fields as they were.
C14_FieldsOnlyAtAssignmentStages ==
  [][ \A t \in DOMAIN tasks :
        /\ \A f \in 1..5 :
             Resolved(tasks'[t])[f] # Resolved(tasks[t])[f] =>
               /\ Succeeded("advance", t)
               /\ current_step(tasks[t]) = Some(AssignmentStage[f])
        /\ Succeeded("fail_step", t) => Resolved(tasks'[t]) = Resolved(tasks[t])
        /\ (/\ Succeeded("advance", t)
            /\ \A f \in 1..5 : current_step(tasks[t]) # Some(AssignmentStage[f]))
             => Resolved(tasks'[t]) = Resolved(tasks[t]) ]_vars

\* An advance has just completed TASK_TO_REPOSITORY with a payload that carries
\* all five keys: repository and branch are set and the other three are not.
C14_Witness ==
  \E t \in DOMAIN tasks :
    /\ JustStored(t)
    /\ Len(tasks[t].steps) > 0
    /\ LastEntry(tasks[t]).step = TASK_TO_REPOSITORY
    /\ LastEntry(tasks[t]).output = Some(FullOutput)
    /\ Resolved(tasks[t]) = << None, None, None, Some("audit"), Some("main") >>

\* ------------------------------------------------------------ history growth
\* seq is old with one entry added at the end.
ExtendsByOne(old, seq) ==
  /\ Len(seq) = Len(old) + 1
  /\ SubSeq(seq, 1, Len(old)) = old

\* C15: an advance or fail_step that goes through adds exactly one entry at the
\* end of the history, for the stage that was current before the call:
\* COMPLETED for advance, FAILED with the given error text for fail_step.  No
\* step of any operation changes, removes or reorders an entry already there.
C15_HistoryAppendOnly ==
  [][ \A t \in DOMAIN tasks :
        LET old == tasks[t].steps
            new == tasks'[t].steps
        IN  /\ Len(new) >= Len(old)
            /\ SubSeq(new, 1, Len(old)) = old
            /\ Succeeded("advance", t) =>
                 /\ ExtendsByOne(old, new)
                 /\ Some(new[Len(new)].step) = current_step(tasks[t])
                 /\ new[Len(new)].status = COMPLETED
            /\ \A error \in Errors :
                 (~IsComplete(tasks[t]) /\ fail_step(t, error)) =>
                   /\ ExtendsByOne(old, new)
                   /\ Some(new[Len(new)].step) = current_step(tasks[t])
                   /\ new[Len(new)].status = FAILED
                   /\ new[Len(new)].error = Some(error)
            /\ new # old =>
                 Succeeded("advance", t) \/ Succeeded("fail_step", t) ]_vars

\* An advance has just added a COMPLETED entry after a FAILED one that keeps
\* its error text.
C15_Witness ==
  \E t \in DOMAIN tasks :
    LET n == Len(tasks[t].steps)
    IN  /\ n >= 3
        /\ result.op = "advance" /\ result.task_id = t /\ result.raised = "none"
        /\ tasks[t].steps[n].status = COMPLETED
        /\ tasks[t].steps[n - 1].status = FAILED
        /\ tasks[t].steps[n - 1].error = Some("denied")
        /\ tasks[t].steps[n - 2].status = COMPLETED

\* ----------------------------------------------------------- status summary
\* The last call was a get_task_status that returned a summary.
StatusReturned ==
  /\ result.op = "get_task_status"
  /\ result.raised = "none"

RankName(r) == IF r = NumSteps + 1 THEN "COMPLETE" ELSE StepName[r]

\* C17: for every registered task the summary has steps_completed equal to the
\* number of COMPLETED entries (FAILED ones not counted), total_steps = 10 and
\* current_step the name of the current stage or "COMPLETE"; steps_completed
\* is the rank of the current stage less one, and current_step is "COMPLETE"
\* exactly when steps_completed = 10.  A summary just returned is the one of
\* the task as it is.
C17_StatusCounts ==
  /\ \A t \in DOMAIN tasks :
       LET status == TaskStatus(tasks[t])
       IN  /\ status.steps_completed = Len(tasks[t].steps) - FailedCount(tasks[t])
           /\ status.total_steps = NumSteps
           /\ status.current_step = RankName(StepRank(current_step(tasks[t])))
           /\ status.steps_completed = StepRank(current_step(tasks[t])) - 1
           /\ status.current_step = "COMPLETE" <=> status.steps_completed = NumSteps
  /\ StatusReturned => result.value = Some(TaskStatus(tasks[result.task_id]))

\* A task part of the way through with a FAILED entry, which its summary does
\* not count.
C17_Witness ==
  \E t \in DOMAIN tasks :
    /\ FailedCount(tasks[t]) = 1
    /\ TaskStatus(tasks[t]).steps_completed = 4
    /\ TaskStatus(tasks[t]).current_step = "TASK_TO_AGENT"
    /\ Len(tasks[t].steps) = 5

\* ----------------------------------------------------------------- registry
\* C18: a registered task stays registered under its id, as the same record:
\* no call, whether it returns or raises, removes it or puts another record
\* (another task_id, intent or creation time, or a history that does not
\* continue the old one) in its place.
C18_TasksStayRegistered ==
  [][ \A t \in DOMAIN tasks :
        /\ t \in DOMAIN tasks'
        /\ tasks'[t].task_id = t
        /\ tasks'[t].intent = tasks[t].intent
        /\ tasks'[t].created_at = tasks[t].created_at
        /\ SubSeq(tasks'[t].steps, 1, Len(tasks[t].steps)) = tasks[t].steps ]_vars

\* A create_task has just registered a second task while the first one, with a
\* history, is still there.
C18_Witness ==
  /\ result.op = "create_task"
  /\ DOMAIN tasks = {1, 2}
  /\ result.task_id = 2
  /\ Len(tasks[1].steps) >= 2

\* C19: create_task always goes through: it is never refused, and it registers
\* under an id that was not in the registry a record with the given intent,
\* an empty history, the five resolved fields None and the rank-1 stage as
\* current step, returns that record, and leaves every task that was
\* registered as it was.
C19_CreateTaskFresh ==
  /\ [](\A intent \in Intents : ENABLED create_task(intent))
  /\ [][ \A intent \in Intents :
           create_task(intent) =>
             LET task_id == result'.task_id
             IN  /\ result'.raised = "none"
                 /\ task_id \notin DOMAIN tasks
                 /\ DOMAIN tasks' = DOMAIN tasks \cup {task_id}
                 /\ result'.value = Some(tasks'[task_id])
                 /\ tasks'[task_id].task_id = task_id
                 /\ tasks'[task_id].intent = intent
                 /\ tasks'[task_id].steps = << >>
                 /\ Resolved(tasks'[task_id]) = << None, None, None, None, None >>
                 /\ current_step(tasks'[task_id]) = Some(1)
                 /\ \A t \in DOMAIN tasks : tasks'[t] = tasks[t] ]_vars

\* A second task has just been created, empty, next to a finished one.
C19_Witness ==
  \E t \in DOMAIN tasks :
    /\ result = Returned("create_task", t, Some(tasks[t]))
    /\ tasks[t].steps = << >>
    /\ \E u \in DOMAIN tasks \ {t} : IsComplete(tasks[u])

\* ------------------------------------------------------------ step outcomes
\* C20: every entry of every history, and every StepResult a call returns, has
\* status COMPLETED or FAILED and a completion timestamp equal to its start
\* timestamp.
C20_OutcomesCompletedOrFailed ==
  /\ \A t \in DOMAIN tasks : \A i \in 1..Len(tasks[t].steps) :
       /\ tasks[t].steps[i].status \in {COMPLETED, FAILED}
       /\ tasks[t].steps[i].completed_at = tasks[t].steps[i].started_at
  /\ (result.op \in {"advance", "fail_step"} /\ result.raised = "none") =>
       /\ result.value[1].status \in {COMPLETED, FAILED}
       /\ result.value[1].completed_at = result.value[1].started_at

\* A history of COMPLETED entries, appended at a later clock reading than the
\* task was created at.
C20_Witness ==
  \E t \in DOMAIN tasks :
    /\ Len(tasks[t].steps) >= 2
    /\ LastEntry(tasks[t]).started_at > tasks[t].created_at
    /\ \E i \in 1..Len(tasks[t].steps) : tasks[t].steps[i].status = COMPLETED

\* ------------------------------------------------------------------- reads
\* C21: get_task and get_task_status change nothing in the registry: no
\* history, resolved field, digest or registered id.  get_task returns the
\* registered record, and for an id that is not registered it returns None
\* and does not raise.
C21_ReadsChangeNothing ==
  [][ \A id \in IdSpace :
        /\ Called("get_task", id) =>
             /\ tasks' = tasks
             /\ result'.raised = "none"
             /\ result'.value =
                  IF id \in DOMAIN tasks THEN Some(tasks[id]) ELSE None
        /\ Called("get_task_status", id) => tasks' = tasks ]_vars

\* get_task has just returned None for an id that is not registered, next to
\* a registered task with a history.
C21_Witness ==
  /\ result.op = "get_task"
  /\ result.raised = "none"
  /\ result.value = None
  /\ result.task_id \notin DOMAIN tasks
  /\ \E t \in DOMAIN tasks : Len(tasks[t].steps) > 0 /\ tasks[t].witness_hash # None

\* ----------------------------------------------------------- history order
\* C22: along every history the stage ranks never decrease, and no entry for
\* a stage follows that stage's COMPLETED entry: the COMPLETED entry of a
\* stage is the last entry of that stage, its FAILED entries come before it.
C22_RanksNonDecreasing ==
  \A t \in DOMAIN tasks :
    LET steps == tasks[t].steps
    IN  \A i \in 1..Len(steps) : \A j \in (i + 1)..Len(steps) :
          /\ steps[i].step <= steps[j].step
          /\ steps[i].status = COMPLETED => steps[i].step < steps[j].step

\* A history in which a stage failed, was then completed, and a later stage
\* has an entry.
C22_Witness ==
  \E t \in DOMAIN tasks :
    LET steps == tasks[t].steps
    IN  \E i \in 1..(Len(steps) - 2) :
          /\ steps[i].status = FAILED
          /\ steps[i + 1].status = COMPLETED
          /\ steps[i + 1].step = steps[i].step
          /\ steps[i + 2].step = steps[i].step + 1

\* ------------------------------------------------------------- other tasks
\* The registry after a call on task t has gone through, given the record the
\* call leaves.
After(registry, t, task) == [ registry EXCEPT ![t] = task ]

\* The clock readings two calls made one after the other may see.
Readings == { clock, clock + 1 }

\* Two calls on different tasks t and u, each at its own clock reading, leave
\* the same registry whichever is made first.
CallsCommute(t, u) ==
  \A now_t \in Readings, now_u \in Readings :
    /\ \A output_t \in Outputs, output_u \in Outputs :
         LET t_first == After(tasks, t, Advanced(tasks[t], output_t, now_t))
             u_first == After(tasks, u, Advanced(tasks[u], output_u, now_u))
         IN  After(t_first, u, Advanced(t_first[u], output_u, now_u))
               = After(u_first, t, Advanced(u_first[t], output_t, now_t))
    /\ \A output_t \in Outputs, error_u \in Errors :
         LET t_first == After(tasks, t, Advanced(tasks[t], output_t, now_t))
             u_first == After(tasks, u, Failed(tasks[u], error_u, now_u))
         IN  After(t_first, u, Failed(t_first[u], error_u, now_u))
               = After(u_first, t, Advanced(u_first[t], output_t, now_t))

C24_DigestNoneIffNoHistory ==
  /\ \A t \in DOMAIN tasks :
       tasks[t].witness_hash = None <=> tasks[t].steps = << >>
  /\ (StatusReturned /\ tasks[result.task_id].steps = << >>) =>
       result.value[1].witness_hash = None
  /\ (StatusReturned /\ tasks[result.task_id].steps # << >>) =>
       result.value[1].witness_hash # None

\* get_task_status has just reported the digest None for a task with no
\* history.
C24_Witness ==
  /\ StatusReturned
  /\ tasks[result.task_id].steps = << >>
  /\ result.value[1].witness_hash = None
  /\ result.value[1].steps_completed = 0

\* ------------------------------------------------------------- twin runs
\* The record of the run that makes the calls of the run behind `task`, at
\* the same clock readings, up to its n-th entry, but passes `output` to
\* every advance and `error` to every fail_step.
RECURSIVE Twin(_, _, _, _)
Twin(task, n, output, error) ==
  IF n = 0
    THEN NewTaskRecord(task.task_id, task.intent, task.created_at)
    ELSE LET before == Twin(task, n - 1, output, error)
             entry == task.steps[n]
         IN  IF entry.status = COMPLETED
               THEN Advanced(before, output, entry.completed_at)
               ELSE Failed(before, error, entry.completed_at)

\* The payloads and error texts of the twin runs.
TwinOutputs == { None, Some(FullOutput) }
TwinErrors == { "denied", "other" }

\* C25: two runs that make the same calls at the same clock readings and
\* differ only in the payloads passed to advance and the error texts passed
\* to fail_step, and so in the stored outputs, errors and resolved fields,
\* have the same (stage, status, completion time) triples and the same
\* digest.
C25_DigestIgnoresPayloads ==
  \A t \in DOMAIN tasks :
    JustStored(t) =>
      \A output \in TwinOutputs, error \in TwinErrors :
        LET twin == Twin(tasks[t], Len(tasks[t].steps), output, error)
        IN  /\ Triples(twin) = Triples(tasks[t])
            /\ twin.witness_hash = tasks[t].witness_hash

\* A digest has just been stored for a task whose resolved fields differ from
\* those of its twin run with no payloads.
C25_Witness ==
  \E t \in DOMAIN tasks :
    /\ JustStored(t)
    /\ Len(tasks[t].steps) >= TASK_TO_TEAM
    /\ tasks[t].organization # None
    /\ Resolved(Twin(tasks[t], Len(tasks[t].steps), None, "other"))
         = << None, None, None, None, None >>
    /\ Resolved(Twin(tasks[t], Len(tasks[t].steps), Some(FullOutput), "other"))
         # Resolved(tasks[t])

Remaining(task) == NumSteps - Cardinality(CompletedSteps(task))

\* C27: if advance keeps being called on a registered task, whatever
\* fail_step calls come in between, the task reaches the terminal sentinel;
\* every advance that goes through takes one stage off those still to be
\* completed and nothing else changes their number, so a task with k stages
\* completed is finished after 10 - k of them; and a task whose current step
\* is the sentinel keeps it in every later state.
C27_CompletionReachableAndStable ==
  /\ \A t \in IdSpace :
       (t \in DOMAIN tasks) ~> (t \in DOMAIN tasks /\ IsComplete(tasks[t]))
  /\ [](\A t \in DOMAIN tasks :
          /\ Remaining(tasks[t]) \in 0..NumSteps
          /\ IsComplete(tasks[t]) <=> Remaining(tasks[t]) = 0)
  /\ [][ \A t \in DOMAIN tasks :
           /\ Remaining(tasks'[t]) =
                IF Succeeded("advance", t) THEN Remaining(tasks[t]) - 1
                                           ELSE Remaining(tasks[t])
           /\ IsComplete(tasks[t]) => IsComplete(tasks'[t]) ]_vars

\* Two registered tasks have both reached the terminal sentinel.
C27_Witness ==
  \E t \in DOMAIN tasks : \E u \in DOMAIN tasks \ {t} :
    /\ IsComplete(tasks[t])
    /\ IsComplete(tasks[u])

====
